---- MODULE Spec2Model ----
(***************************************************************************)
(* Model of the browser chat client of src/chat_app.js.                    *)
(*                                                                         *)
(* The script runs on the browser's single-threaded event loop: every      *)
(* action below is one task of that loop (a page event, a socket event, a  *)
(* timer callback, a user gesture) and runs its handler to completion.     *)
(* Strings are tuples of one-character strings, so that trim and           *)
(* escapeHtml are computed character by character.  Time is counted in     *)
(* milliseconds; a timer callback runs when its delay has elapsed.         *)
(***************************************************************************)
EXTENDS Integers, Sequences, FiniteSets, TLC

(* ------------------------------ bounds --------------------------------- *)

\* events of the network and gestures of the user in one run
MaxEvents == 4
\* frames the server delivers in one run
MaxInbound == 2

(* ------------------------- program constants --------------------------- *)

\* setTimeout(connectWebSocket, 3000)
ReconnectDelay == 3000
\* setTimeout(() => {...}, 1000)
TypingDelay == 1000

\* amounts by which the clock advances in one step (ms)
TickSteps == {1000}

(* ------------------------------ strings -------------------------------- *)

IsSpace(c) == c = " "

RECURSIVE TrimLeft(_)
TrimLeft(t) ==
    IF t = <<>> THEN <<>>
    ELSE IF IsSpace(Head(t)) THEN TrimLeft(Tail(t)) ELSE t

RECURSIVE TrimRight(_)
TrimRight(t) ==
    IF t = <<>> THEN <<>>
    ELSE IF IsSpace(t[Len(t)]) THEN TrimRight(SubSeq(t, 1, Len(t) - 1)) ELSE t

\* String.prototype.trim
Trim(t) == TrimRight(TrimLeft(t))

\* serialisation of one character of a text node by innerHTML
escapeChar(c) ==
    IF c = "&" THEN <<"&", "a", "m", "p", ";">>
    ELSE IF c = "<" THEN <<"&", "l", "t", ";">>
    ELSE IF c = ">" THEN <<"&", "g", "t", ";">>
    ELSE <<c>>

RECURSIVE escapeHtml(_)
escapeHtml(text) ==
    IF text = <<>> THEN <<>>
    ELSE escapeChar(Head(text)) \o escapeHtml(Tail(text))

(* ------------------------------ inputs --------------------------------- *)

\* values the user leaves in the username field
UsernameInputs == { <<>>, <<" ">>, <<" ", "a", " ">> }
\* values the user leaves in the message field
MessageInputs == { <<" ">>, <<"h", " ">> }
\* readings of new Date().toISOString()
Timestamps == { "T1" }

\* frames the server sends; "a" is also the name the user can join under
InboundUsernames == { <<"a">>, <<"<">> }
InboundContents == { <<"<", "&">> }
InboundFrames ==
         [type : {"message"}, username : InboundUsernames,
          content : InboundContents, timestamp : {"T1"}]
    \cup [type : {"join", "leave", "ping"}, username : {<<"<">>}]
    \cup [type : {"users_count"}, count : {2}]
    \cup [type : {"typing"}, username : InboundUsernames, typing : BOOLEAN]

(* ------------------------------- state --------------------------------- *)

VARIABLES
    ws,             \* let ws: 0 is null, otherwise an index of socks
    username,       \* let username
    typingTimeout,  \* let typingTimeout: 0 is null, otherwise a timer id
    isTyping,       \* let isTyping
    socks,          \* the WebSocket objects created so far
    timers,         \* pending setTimeout timers
    nextTimerId,    \* id the next setTimeout returns
    listeners,      \* number of setupEventListeners calls so far
    loaded,         \* DOMContentLoaded has fired
    connectionStatus, \* #connectionStatus
    userSetupHidden,  \* #userSetup has class hidden
    chatInputHidden,  \* #chatInput has class hidden
    messageInput,     \* #messageInput.value
    chatMessages,     \* children of #chatMessages
    usersOnline,      \* #usersOnline
    typingIndicator,  \* #typingIndicator
    sent,           \* calls of WebSocket.send, in order
    calls,          \* what the task of the last step did, in order
    received,       \* frames delivered by the server so far, in order, each
                    \* with the value of username when it arrived
    events          \* number of network events and user gestures so far

vars == << ws, username, typingTimeout, isTyping, socks, timers, nextTimerId,
           listeners, loaded, connectionStatus, userSetupHidden,
           chatInputHidden, messageInput, chatMessages, usersOnline,
           typingIndicator, sent, calls, received, events >>

\* the state as one record, so that handlers compose as functions
State ==
    [ ws |-> ws, username |-> username, typingTimeout |-> typingTimeout,
      isTyping |-> isTyping, socks |-> socks, timers |-> timers,
      nextTimerId |-> nextTimerId, listeners |-> listeners, loaded |-> loaded,
      connectionStatus |-> connectionStatus,
      userSetupHidden |-> userSetupHidden, chatInputHidden |-> chatInputHidden,
      messageInput |-> messageInput, chatMessages |-> chatMessages,
      usersOnline |-> usersOnline, typingIndicator |-> typingIndicator,
      sent |-> sent, calls |-> calls, received |-> received,
      events |-> events ]

\* the state at the start of a task: nothing done yet
Fresh == [State EXCEPT !.calls = <<>>]

Commit(s) ==
    /\ ws' = s.ws
    /\ username' = s.username
    /\ typingTimeout' = s.typingTimeout
    /\ isTyping' = s.isTyping
    /\ socks' = s.socks
    /\ timers' = s.timers
    /\ nextTimerId' = s.nextTimerId
    /\ listeners' = s.listeners
    /\ loaded' = s.loaded
    /\ connectionStatus' = s.connectionStatus
    /\ userSetupHidden' = s.userSetupHidden
    /\ chatInputHidden' = s.chatInputHidden
    /\ messageInput' = s.messageInput
    /\ chatMessages' = s.chatMessages
    /\ usersOnline' = s.usersOnline
    /\ typingIndicator' = s.typingIndicator
    /\ sent' = s.sent
    /\ calls' = s.calls
    /\ received' = s.received
    /\ events' = s.events

\* record in calls that the task called op with argument arg (a string)
Did(s, op, arg) ==
    [s EXCEPT !.calls = Append(@, [op |-> op, arg |-> arg])]

(* --------------------------- browser objects --------------------------- *)

\* new WebSocket(url): a socket in state CONNECTING
\* errorFired and closeFired tell which of its events have been delivered
NewWebSocket ==
    [readyState |-> "CONNECTING", errorFired |-> FALSE, closeFired |-> FALSE]

\* setTimeout(callback, delay): a pending timer; returns s with nextTimerId
\* advanced, the id of the new timer is s.nextTimerId
setTimeout(s, kind, delay) ==
    [s EXCEPT !.timers = @ \cup {[id |-> s.nextTimerId, kind |-> kind,
                                  remaining |-> delay, age |-> 0]},
              !.nextTimerId = @ + 1]

\* clearTimeout(id): no effect when id is null or names no pending timer
clearTimeout(s, id) ==
    [s EXCEPT !.timers = {t \in @ : t.id # id}]

\* WebSocket.prototype.send on the socket held in ws
wsSend(s, frame) ==
    [s EXCEPT !.sent = Append(@, [frame |-> frame, sock |-> s.ws,
                                  readyState |-> IF s.ws = 0 THEN "null"
                                      ELSE s.socks[s.ws].readyState])]

IsOpen(s) == s.ws # 0 /\ s.socks[s.ws].readyState = "OPEN"

(* ------------------------------ handlers ------------------------------- *)

updateConnectionStatus(s, connected) ==
    [s EXCEPT !.connectionStatus =
        IF connected THEN "Connected" ELSE "Disconnected"]

connectWebSocket(s) ==
    LET s1 == Did(s, "connectWebSocket", "")
    IN [s1 EXCEPT !.socks = Append(@, NewWebSocket),
                  !.ws = Len(s.socks) + 1]

\* onopen, had it flushed the text left in the message field
onopen_flush(s) ==
    LET s1 == updateConnectionStatus(s, TRUE)
    IN IF Trim(s1.messageInput) # <<>>
       THEN wsSend(s1, [type |-> "message", username |-> s1.username,
                        content |-> Trim(s1.messageInput),
                        timestamp |-> "T1"])
       ELSE s1

\* onopen, had it announced the user again on the new connection
onopen_rejoin(s) ==
    LET s1 == updateConnectionStatus(s, TRUE)
    IN IF s1.username # <<>>
       THEN wsSend(s1, [type |-> "join", username |-> s1.username,
                        timestamp |-> "T1"])
       ELSE s1

onopen(s) == updateConnectionStatus(s, TRUE)

\* onclose, had the delay grown with the number of sockets tried
onclose_backoff(s) ==
    setTimeout(updateConnectionStatus(s, FALSE), "reconnect",
               ReconnectDelay * Len(s.socks))

\* onclose, had it given up after the first retry
onclose_once(s) ==
    IF Len(s.socks) < 2
    THEN setTimeout(updateConnectionStatus(s, FALSE), "reconnect",
                    ReconnectDelay)
    ELSE updateConnectionStatus(s, FALSE)

onclose(s) ==
    setTimeout(updateConnectionStatus(s, FALSE), "reconnect", ReconnectDelay)

\* onerror, had it reconnected at once
onerror_connect(s) == connectWebSocket(updateConnectionStatus(s, FALSE))

\* onerror, had it scheduled a retry as onclose does
onerror_retry(s) ==
    setTimeout(updateConnectionStatus(s, FALSE), "reconnect", ReconnectDelay)

\* onerror, had it left the indicator as it was
onerror_quiet(s) == s

onerror(s) == updateConnectionStatus(s, FALSE)

\* sendTypingStatus, had it not looked at readyState
sendTypingStatus_unguarded(s, typing) ==
    LET s1 == Did(s, "sendTypingStatus", IF typing THEN "true" ELSE "false")
    IN IF s1.ws # 0
       THEN wsSend(s1, [type |-> "typing", username |-> s1.username,
                        typing |-> typing])
       ELSE s1

sendTypingStatus(s, typing) ==
    LET s1 == Did(s, "sendTypingStatus", IF typing THEN "true" ELSE "false")
    IN IF IsOpen(s1)
       THEN wsSend(s1, [type |-> "typing", username |-> s1.username,
                        typing |-> typing])
       ELSE s1

alert(s, text) == Did(s, "alert", text)

setupEventListeners(s) == [s EXCEPT !.listeners = @ + 1]

\* joinChat, had it returned silently without a connection
joinChat_silent(s0, entered, ts) ==
    LET s == Did(s0, "joinChat", "")
        enteredUsername == Trim(entered)
    IN IF enteredUsername = <<>>
       THEN alert(s, "Please enter a username")
       ELSE IF IsOpen(s)
       THEN LET s1 == [s EXCEPT !.username = enteredUsername]
                s2 == wsSend(s1, [type |-> "join", username |-> s1.username,
                                  timestamp |-> ts])
                s3 == [s2 EXCEPT !.userSetupHidden = TRUE,
                                 !.chatInputHidden = FALSE]
            IN setupEventListeners(s3)
       ELSE s

\* joinChat, had it shown the chat without announcing the user
joinChat_noJoinFrame(s0, entered, ts) ==
    LET s == Did(s0, "joinChat", "")
        enteredUsername == Trim(entered)
    IN IF enteredUsername = <<>>
       THEN alert(s, "Please enter a username")
       ELSE IF IsOpen(s)
       THEN LET s1 == [s EXCEPT !.username = enteredUsername]
                s3 == [s1 EXCEPT !.userSetupHidden = TRUE,
                                 !.chatInputHidden = FALSE]
            IN setupEventListeners(s3)
       ELSE alert(s, "Not connected to server. Please wait and try again.")

\* joinChat, had it stored the username before testing the connection
joinChat_assignFirst(s0, entered, ts) ==
    LET s == Did(s0, "joinChat", "")
        enteredUsername == Trim(entered)
    IN IF enteredUsername = <<>>
       THEN alert(s, "Please enter a username")
       ELSE LET s1 == [s EXCEPT !.username = enteredUsername]
            IN IF IsOpen(s1)
               THEN LET s2 == wsSend(s1, [type |-> "join",
                                          username |-> s1.username,
                                          timestamp |-> ts])
                        s3 == [s2 EXCEPT !.userSetupHidden = TRUE,
                                         !.chatInputHidden = FALSE]
                    IN setupEventListeners(s3)
               ELSE alert(s1,
                       "Not connected to server. Please wait and try again.")

joinChat(s0, entered, ts) ==
    LET s == Did(s0, "joinChat", "")
        enteredUsername == Trim(entered)
    IN IF enteredUsername = <<>>
       THEN alert(s, "Please enter a username")
       ELSE IF IsOpen(s)
       THEN LET s1 == [s EXCEPT !.username = enteredUsername]
                s2 == wsSend(s1, [type |-> "join", username |-> s1.username,
                                  timestamp |-> ts])
                s3 == [s2 EXCEPT !.userSetupHidden = TRUE,
                                 !.chatInputHidden = FALSE]
            IN setupEventListeners(s3)
       ELSE alert(s, "Not connected to server. Please wait and try again.")

\* the callback, had it left isTyping set
typingCallback_keep(s) == sendTypingStatus(s, FALSE)

\* the callback of the debounce timer
typingCallback(s) ==
    sendTypingStatus([s EXCEPT !.isTyping = FALSE], FALSE)

\* the listener, had it not cleared the pending timer
inputListener_noClear(s) ==
    LET s1 == IF ~s.isTyping
              THEN sendTypingStatus([s EXCEPT !.isTyping = TRUE], TRUE)
              ELSE s
        s3 == setTimeout(s1, "typing", TypingDelay)
    IN [s3 EXCEPT !.typingTimeout = s1.nextTimerId]

\* one run of the 'input' listener of the message field
inputListener(s) ==
    LET s1 == IF ~s.isTyping
              THEN sendTypingStatus([s EXCEPT !.isTyping = TRUE], TRUE)
              ELSE s
        s2 == clearTimeout(s1, s1.typingTimeout)
        s3 == setTimeout(s2, "typing", TypingDelay)
    IN [s3 EXCEPT !.typingTimeout = s2.nextTimerId]

\* sendMessage, had it shown the message at once (local echo)
sendMessage_echo(s0, ts) ==
    LET s == Did(s0, "sendMessage", "")
        messageText == Trim(s.messageInput)
    IN IF messageText = <<>> \/ ~IsOpen(s)
       THEN s
       ELSE LET message == [type |-> "message", username |-> s.username,
                            content |-> messageText, timestamp |-> ts]
                s1 == wsSend(s, message)
                s2 == [s1 EXCEPT !.messageInput = <<>>,
                                 !.chatMessages = Append(@,
                                     [class |-> "own", author |-> <<>>,
                                      content |-> escapeHtml(messageText),
                                      time |-> ts, data |-> message])]
            IN IF s2.isTyping
               THEN sendTypingStatus([s2 EXCEPT !.isTyping = FALSE], FALSE)
               ELSE s2

\* sendMessage, had it sent the text of the field as typed
sendMessage_untrimmed(s0, ts) ==
    LET s == Did(s0, "sendMessage", "")
        messageText == Trim(s.messageInput)
    IN IF messageText = <<>> \/ ~IsOpen(s)
       THEN s
       ELSE LET s1 == wsSend(s, [type |-> "message", username |-> s.username,
                                 content |-> s.messageInput,
                                 timestamp |-> ts])
                s2 == [s1 EXCEPT !.messageInput = <<>>]
            IN IF s2.isTyping
               THEN sendTypingStatus([s2 EXCEPT !.isTyping = FALSE], FALSE)
               ELSE s2

sendMessage(s0, ts) ==
    LET s == Did(s0, "sendMessage", "")
        messageText == Trim(s.messageInput)
    IN IF messageText = <<>> \/ ~IsOpen(s)
       THEN s
       ELSE LET s1 == wsSend(s, [type |-> "message", username |-> s.username,
                                 content |-> messageText, timestamp |-> ts])
                s2 == [s1 EXCEPT !.messageInput = <<>>]
            IN IF s2.isTyping
               THEN sendTypingStatus([s2 EXCEPT !.isTyping = FALSE], FALSE)
               ELSE s2

\* one run of the 'keypress' listener of the message field, key Enter
keypressListener(s, ts) == sendMessage(s, ts)

\* an event of the message field reaches every listener added for it, in
\* the order they were added
RECURSIVE dispatchInput(_, _)
dispatchInput(s, n) ==
    IF n = 0 THEN s ELSE dispatchInput(inputListener(s), n - 1)

RECURSIVE dispatchKeypress(_, _, _)
dispatchKeypress(s, ts, n) ==
    IF n = 0 THEN s ELSE dispatchKeypress(keypressListener(s, ts), ts, n - 1)

(* ------------------------------ rendering ------------------------------ *)

appendChild(s, div) == [s EXCEPT !.chatMessages = Append(@, div)]

\* displayMessage, had it inserted the content as it came
displayMessage_raw(s, data) ==
    LET isOwnMessage == data.username = s.username
    IN appendChild(s, [class |-> IF isOwnMessage THEN "own" ELSE "other",
                       author |-> IF ~isOwnMessage THEN data.username
                                  ELSE <<>>,
                       content |-> data.content,
                       time |-> data.timestamp,
                       data |-> data])

\* the fields of a div are the HTML fragments the template inserts
displayMessage(s, data) ==
    LET isOwnMessage == data.username = s.username
    IN appendChild(s, [class |-> IF isOwnMessage THEN "own" ELSE "other",
                       author |-> IF ~isOwnMessage THEN data.username
                                  ELSE <<>>,
                       content |-> escapeHtml(data.content),
                       time |-> data.timestamp,
                       data |-> data])

displaySystemMessage(s, text, data) ==
    appendChild(s, [class |-> "system", author |-> <<>>, content |-> text,
                    time |-> "", data |-> data])

updateUsersCount(s, count) == [s EXCEPT !.usersOnline = count]

\* handleTypingIndicator, had it not compared the username
handleTypingIndicator_any(s, data) ==
    IF data.typing
    THEN [s EXCEPT !.typingIndicator =
             [text |-> data.username \o <<" is typing...">>,
              hidden |-> FALSE]]
    ELSE [s EXCEPT !.typingIndicator.hidden = TRUE]

handleTypingIndicator(s, data) ==
    IF data.username # s.username
    THEN IF data.typing
         THEN [s EXCEPT !.typingIndicator =
                  [text |-> data.username \o <<" is typing...">>,
                   hidden |-> FALSE]]
         ELSE [s EXCEPT !.typingIndicator.hidden = TRUE]
    ELSE s

\* handleMessage, had its switch a default case that shows the frame
handleMessage_default(s, data) ==
    CASE data.type = "message" -> displayMessage(s, data)
      [] data.type = "join" ->
            displaySystemMessage(s, data.username \o <<" joined the chat">>,
                                 data)
      [] data.type = "leave" ->
            displaySystemMessage(s, data.username \o <<" left the chat">>,
                                 data)
      [] data.type = "users_count" -> updateUsersCount(s, data.count)
      [] data.type = "typing" -> handleTypingIndicator(s, data)
      [] OTHER -> displaySystemMessage(s, <<"unknown message">>, data)

handleMessage(s, data) ==
    CASE data.type = "message" -> displayMessage(s, data)
      [] data.type = "join" ->
            displaySystemMessage(s, data.username \o <<" joined the chat">>,
                                 data)
      [] data.type = "leave" ->
            displaySystemMessage(s, data.username \o <<" left the chat">>,
                                 data)
      [] data.type = "users_count" -> updateUsersCount(s, data.count)
      [] data.type = "typing" -> handleTypingIndicator(s, data)
      [] OTHER -> s

onmessage(s, data) == handleMessage(s, data)

(* ------------------------------- tasks --------------------------------- *)

\* the state at the start of the task of an event that counts against
\* MaxEvents
Event == [Fresh EXCEPT !.events = @ + 1]

Init ==
    /\ ws = 0
    /\ username = <<>>
    /\ typingTimeout = 0
    /\ isTyping = FALSE
    /\ socks = <<>>
    /\ timers = {}
    /\ nextTimerId = 1
    /\ listeners = 0
    /\ loaded = FALSE
    /\ connectionStatus = "initial"
    /\ userSetupHidden = FALSE
    /\ chatInputHidden = TRUE
    /\ messageInput = <<>>
    /\ chatMessages = <<>>
    /\ usersOnline = 0
    /\ typingIndicator = [text |-> <<>>, hidden |-> TRUE]
    /\ sent = <<>>
    /\ calls = <<>>
    /\ received = <<>>
    /\ events = 0

\* document 'DOMContentLoaded'
DOMContentLoaded ==
    /\ ~loaded
    /\ Commit(connectWebSocket([Fresh
                                  EXCEPT !.loaded = TRUE]))

\* the connection of socket i is established
NetOpen(i) ==
    /\ socks[i].readyState = "CONNECTING"
    /\ Commit(onopen([Fresh EXCEPT !.socks[i].readyState = "OPEN"]))

\* the closing handshake of socket i starts; no event is fired
NetClosing(i) ==
    /\ socks[i].readyState = "OPEN"
    /\ events < MaxEvents
    /\ Commit([Event EXCEPT !.socks[i].readyState = "CLOSING"])

\* the connection of socket i fails: the socket is closed and 'error' fired
NetError(i) ==
    /\ socks[i].readyState # "CLOSED"
    /\ events < MaxEvents
    /\ Commit(onerror([Event
                         EXCEPT !.socks[i].readyState = "CLOSED",
                                !.socks[i].errorFired = TRUE]))

\* socket i is connecting or connected: nothing has begun to end it
Healthy(i) == socks[i].readyState \in {"CONNECTING", "OPEN"}

\* 'close' is fired at socket i, once per socket; the loss of a healthy
\* connection counts against MaxEvents, the end of a closure that an error
\* or a closing handshake began does not
NetClose(i) ==
    /\ ~socks[i].closeFired
    /\ Healthy(i) => events < MaxEvents
    /\ Commit(onclose([(IF Healthy(i) THEN Event ELSE Fresh)
                         EXCEPT !.socks[i].readyState = "CLOSED",
                                !.socks[i].closeFired = TRUE]))

\* a frame arrives on socket i
NetMessage(i, data) ==
    /\ socks[i].readyState = "OPEN"
    /\ events < MaxEvents
    /\ Len(received) < MaxInbound
    /\ Commit(onmessage([Event EXCEPT !.received =
                             Append(@, [data |-> data,
                                        username |-> username])], data))

\* d milliseconds pass; no timer is overdue
Tick(d) ==
    /\ timers # {}
    /\ \A t \in timers : t.remaining >= d
    /\ Commit([Fresh EXCEPT !.timers =
                  {[t EXCEPT !.remaining = @ - d, !.age = @ + d] : t \in @}])

\* the callback of reconnect timer t runs
ReconnectTimer(t) ==
    /\ t.kind = "reconnect"
    /\ t.remaining = 0
    /\ Commit(connectWebSocket([Fresh
                                  EXCEPT !.timers = @ \ {t}]))

\* the callback of debounce timer t runs
TypingTimer(t) ==
    /\ t.kind = "typing"
    /\ t.remaining = 0
    /\ Commit(typingCallback([Fresh
                                EXCEPT !.timers = @ \ {t}]))

\* the user asks to join with the username field holding entered; the
\* field and its button are in #userSetup, which the user sees until a
\* joinChat call hides it
JoinChat(entered, ts) ==
    /\ ~userSetupHidden
    /\ events < MaxEvents
    /\ Commit(joinChat(Event, entered, ts))

\* the user changes the message field to text: 'input' is fired; the field
\* is in #chatInput, which the user sees once a joinChat call has shown it
Input(text) ==
    /\ ~chatInputHidden
    /\ text # messageInput
    /\ events < MaxEvents
    /\ Commit(dispatchInput([Event EXCEPT !.messageInput = text],
                            listeners))

\* the page calls sendMessage (send button)
SendMessage(ts) ==
    /\ ~chatInputHidden
    /\ events < MaxEvents
    /\ Commit(sendMessage(Event, ts))

\* the user presses Enter in the message field: 'keypress' is fired
KeypressEnter(ts) ==
    /\ ~chatInputHidden
    /\ listeners > 0
    /\ events < MaxEvents
    /\ Commit(dispatchKeypress(Event, ts, listeners))

Next ==
    \/ DOMContentLoaded
    \/ \E i \in DOMAIN socks : NetOpen(i)
    \/ \E i \in DOMAIN socks : NetClosing(i)
    \/ \E i \in DOMAIN socks : NetError(i)
    \/ \E i \in DOMAIN socks : NetClose(i)
    \/ \E i \in DOMAIN socks, data \in InboundFrames : NetMessage(i, data)
    \/ \E d \in TickSteps : Tick(d)
    \/ \E t \in timers : ReconnectTimer(t)
    \/ \E t \in timers : TypingTimer(t)
    \/ \E entered \in UsernameInputs, ts \in Timestamps : JoinChat(entered, ts)
    \/ \E text \in MessageInputs : Input(text)
    \/ \E ts \in Timestamps : SendMessage(ts)
    \/ \E ts \in Timestamps : KeypressEnter(ts)

Spec == Init /\ [][Next]_vars

\* timers run when they are due and time does not stop: the event loop runs
\* a due callback, and nothing in the script cancels a reconnect timer
FairSpec ==
    /\ Spec
    /\ WF_vars(\E d \in TickSteps : Tick(d))
    /\ WF_vars(\E t \in timers : ReconnectTimer(t))
    /\ WF_vars(\E t \in timers : TypingTimer(t))

\* a step that begins the loss of a connection
LossStep ==
    \/ \E i \in DOMAIN socks : NetError(i)
    \/ \E i \in DOMAIN socks : NetClosing(i)
    \/ \E i \in DOMAIN socks : Healthy(i) /\ NetClose(i)

\* FairSpec, and the network does its part: the page loads, a connection
\* attempt succeeds unless it fails, and the browser fires 'close' at a
\* socket that failed or whose closing handshake has started
LiveSpec ==
    /\ FairSpec
    /\ WF_vars(DOMContentLoaded)
    /\ WF_vars(\E i \in DOMAIN socks : NetOpen(i))
    /\ WF_vars(\E i \in DOMAIN socks : ~Healthy(i) /\ NetClose(i))

(* ------------------------------ properties ----------------------------- *)

ReconnectTimers(T) == {t \in T : t.kind = "reconnect"}
TypingTimers(T) == {t \in T : t.kind = "typing"}
ConnectCall == [op |-> "connectWebSocket", arg |-> ""]
Called(op) == \E k \in DOMAIN calls : calls[k].op = op
FramesOfType(type) == {k \in DOMAIN sent : sent[k].frame.type = type}
\* a step in which the page or the keypress listener calls sendMessage
SendMessageStep ==
    \/ \E ts \in Timestamps : SendMessage(ts)
    \/ \E ts \in Timestamps : KeypressEnter(ts)
JoinChatStep(entered) == \E ts \in Timestamps : JoinChat(entered, ts)

\* C1: every close event adds exactly one reconnect timer of 3000 ms and
\* calls nothing yet; a reconnect timer is never dropped; its callback runs
\* exactly 3000 ms after the close event and calls connectWebSocket exactly
\* once, whatever the number of sockets that failed before.
C1_ReconnectAfterThreeSeconds ==
    [][ /\ \A i \in DOMAIN socks : NetClose(i) =>
              /\ \E t \in timers' :
                    /\ t \notin timers
                    /\ timers' = timers \cup {t}
                    /\ t.kind = "reconnect"
                    /\ t.remaining = ReconnectDelay
                    /\ t.age = 0
              /\ socks' = [socks EXCEPT ![i].readyState = "CLOSED",
                                        ![i].closeFired = TRUE]
        /\ \A t \in ReconnectTimers(timers) :
              \/ \E u \in ReconnectTimers(timers') : u.id = t.id
              \/ /\ ReconnectTimer(t)
                 /\ t.age = ReconnectDelay
                 /\ calls' = <<ConnectCall>>
                 /\ Len(socks') = Len(socks) + 1
      ]_vars

\* C1 witness: the reconnect timer of a second failed socket has just run
C1_Witness ==
    /\ Len(socks) >= 3
    /\ socks[1].closeFired /\ socks[2].closeFired
    /\ calls = <<ConnectCall>>

\* C2 (as stated): once the error event of the current socket has been
\* delivered, connectWebSocket is eventually called again.
C2_ErrorTriggersRetry ==
    \A n \in 1..(MaxEvents + 1) :
        (Len(socks) = n /\ socks[n].errorFired) ~> (Len(socks) > n)

\* C2 (amended): the error handler schedules and calls nothing; the close
\* handler leaves a reconnect timer pending, and while one is pending
\* connectWebSocket is eventually called again: after a failure the retry
\* comes from the close event that follows the error event.
C2_CloseTriggersRetry ==
    /\ [][ /\ \A i \in DOMAIN socks : NetError(i) =>
                  /\ timers' = timers
                  /\ Len(socks') = Len(socks)
                  /\ calls' = <<>>
           /\ \A i \in DOMAIN socks : NetClose(i) =>
                  ReconnectTimers(timers') # {} ]_vars
    /\ (ReconnectTimers(timers) # {})
          ~> (calls = <<ConnectCall>> /\ Len(socks) >= 2)

\* C2 witness: a socket failed (error, then close) and a new one was made
C2_Witness ==
    \E i \in DOMAIN socks :
        socks[i].errorFired /\ socks[i].closeFired /\ Len(socks) > i

\* C3: the sockets whose close event has not been delivered and the pending
\* reconnect timers are together at most one.
C3_SingleConnection ==
    Cardinality({i \in DOMAIN socks : ~socks[i].closeFired})
        + Cardinality(ReconnectTimers(timers)) <= 1

\* C3 witness: a socket fired error and then close, its retry is pending
C3_Witness ==
    /\ \E i \in DOMAIN socks : socks[i].errorFired /\ socks[i].closeFired
    /\ ReconnectTimers(timers) # {}
    /\ Len(socks) >= 2

\* C4: isTyping holds only while a debounce timer is pending; a pending
\* debounce timer is the one typingTimeout names, set by the last input
\* event; its callback runs 1000 ms after that event, sets isTyping to false
\* and calls sendTypingStatus(false).
C4_TypingDebounce ==
    /\ [](isTyping => TypingTimers(timers) # {})
    /\ [](\A t \in TypingTimers(timers) : t.id = typingTimeout)
    /\ [][ /\ \A text \in MessageInputs : (Input(text) /\ listeners > 0) =>
                 \E t \in TypingTimers(timers') :
                     t.age = 0 /\ t.remaining = TypingDelay
           /\ \A t \in TypingTimers(timers) :
                 \/ \E u \in TypingTimers(timers') :
                       u.id = t.id /\ u.age = t.age
                 \/ \E d \in TickSteps : Tick(d)
                 \/ \E text \in MessageInputs : Input(text)
                 \/ /\ TypingTimer(t)
                    /\ t.age = TypingDelay
                    /\ ~isTyping'
                    /\ calls' = <<[op |-> "sendTypingStatus",
                                   arg |-> "false"]>>
      ]_vars

\* C4 witness: the debounce timer has just run after a second of silence
C4_Witness ==
    /\ calls = <<[op |-> "sendTypingStatus", arg |-> "false"]>>
    /\ typingTimeout # 0
    /\ TypingTimers(timers) = {}
    /\ ~isTyping
    /\ \E k \in DOMAIN sent :
          sent[k].frame.type = "typing" /\ sent[k].frame.typing

\* C5 (as stated): joinChat with a non-empty username and sendMessage with
\* a non-empty text both raise an alert when the connection is not OPEN.
C5_AlertOnJoinAndSend ==
    [][ ~IsOpen(State) =>
          /\ \A entered \in UsernameInputs :
                (JoinChatStep(entered) /\ Trim(entered) # <<>>) =>
                    Called("alert")'
          /\ (SendMessageStep /\ Trim(messageInput) # <<>>) =>
                Called("alert")'
      ]_vars

\* C5 (amended): joinChat with a non-empty username raises the alert when
\* the connection is not OPEN; sendMessage with a non-empty text then
\* raises no alert.
C5_AlertOnJoinOnly ==
    [][ ~IsOpen(State) =>
          /\ \A entered \in UsernameInputs :
                (JoinChatStep(entered) /\ Trim(entered) # <<>>) =>
                    calls' = << [op |-> "joinChat", arg |-> ""],
                                [op |-> "alert", arg |->
                      "Not connected to server. Please wait and try again."] >>
          /\ (SendMessageStep /\ Trim(messageInput) # <<>>) =>
                ~Called("alert")'
      ]_vars

\* C5 witness: a join was refused for lack of a connection
C5_Witness ==
    /\ ~IsOpen(State)
    /\ Called("joinChat")
    /\ \E k \in DOMAIN calls :
          calls[k] = [op |-> "alert", arg |->
                      "Not connected to server. Please wait and try again."]

\* C6: a sendMessage call made while the connection is not OPEN sends
\* nothing and leaves the message field, isTyping, typingTimeout, username,
\* ws and the timers as they are; a message frame is sent only in the step
\* of a sendMessage call that finds the connection OPEN, and carries the
\* text of the message field at that call.
C6_NoQueueing ==
    [][ /\ (SendMessageStep /\ ~IsOpen(State)) =>
              UNCHANGED << sent, messageInput, isTyping, typingTimeout,
                           username, ws, timers, socks >>
        /\ FramesOfType("message")' # FramesOfType("message") =>
              /\ SendMessageStep
              /\ IsOpen(State)
              /\ Len(sent') > Len(sent)
              /\ sent'[Len(sent) + 1].frame.type = "message"
              /\ sent'[Len(sent) + 1].frame.content = Trim(messageInput)
              /\ FramesOfType("message")' =
                    FramesOfType("message") \cup {Len(sent) + 1}
      ]_vars

\* C6 witness: sendMessage was called with a text while a closed socket
\* was the current one, and nothing was sent
C6_Witness ==
    /\ Called("sendMessage")
    /\ ws # 0 /\ socks[ws].closeFired
    /\ Trim(messageInput) # <<>>
    /\ FramesOfType("message") = {}

\* C7: the join frames sent are as many as the joinChat calls that found
\* the connection OPEN; a join frame is sent only in the step of such a
\* call, and the steps of connectWebSocket and of the open, close, error and
\* message handlers send nothing.
C7_NoRejoin ==
    /\ [](Cardinality(FramesOfType("join")) = listeners)
    /\ [][ /\ FramesOfType("join")' # FramesOfType("join") =>
                 /\ \E entered \in UsernameInputs : JoinChatStep(entered)
                 /\ IsOpen(State)
           /\ ( \/ DOMContentLoaded
                \/ \E i \in DOMAIN socks : NetOpen(i)
                \/ \E i \in DOMAIN socks : NetClose(i)
                \/ \E i \in DOMAIN socks : NetError(i)
                \/ \E i \in DOMAIN socks, data \in InboundFrames :
                      NetMessage(i, data)
                \/ \E t \in timers : ReconnectTimer(t) ) => sent' = sent
      ]_vars

\* C7 witness: the user joined, the connection was lost and a new one is
\* open
C7_Witness ==
    /\ listeners >= 1
    /\ Len(socks) >= 2
    /\ IsOpen(State)
    /\ \E k \in FramesOfType("join") : sent[k].sock < ws

\* C8: every frame handed to send is a join frame (username, timestamp), a
\* message frame (username, content, timestamp) or a typing frame
\* (username, boolean typing), and the socket is OPEN at that moment.
C8_FrameShapes ==
    \A k \in DOMAIN sent :
        /\ sent[k].readyState = "OPEN"
        /\ \/ /\ sent[k].frame.type = "join"
              /\ DOMAIN sent[k].frame = {"type", "username", "timestamp"}
           \/ /\ sent[k].frame.type = "message"
              /\ DOMAIN sent[k].frame =
                    {"type", "username", "content", "timestamp"}
           \/ /\ sent[k].frame.type = "typing"
              /\ DOMAIN sent[k].frame = {"type", "username", "typing"}
              /\ sent[k].frame.typing \in BOOLEAN

\* C8 witness: the three kinds of frame have been sent, typing frames with
\* both values of typing
C8_Witness ==
    /\ FramesOfType("join") # {}
    /\ FramesOfType("message") # {}
    /\ \E k \in FramesOfType("typing") : ~sent[k].frame.typing
    /\ \E k \in FramesOfType("typing") : sent[k].frame.typing

\* the characters of html are text: no tag opens or closes in it
NoMarkup(html) == \A k \in DOMAIN html : html[k] \notin {"<", ">"}

\* C9: the content of every div rendered for an inbound message frame is
\* escapeHtml of the frame's content, and holds no markup.
C9_ContentEscaped ==
    \A k \in DOMAIN chatMessages :
        chatMessages[k].data.type = "message" =>
            /\ chatMessages[k].content = escapeHtml(chatMessages[k].data.content)
            /\ NoMarkup(chatMessages[k].content)

\* C9 witness: a message whose content holds a tag has been rendered
C9_Witness ==
    \E k \in DOMAIN chatMessages :
        /\ chatMessages[k].data.type = "message"
        /\ ~NoMarkup(chatMessages[k].data.content)

ChatFrames == FramesOfType("message") \cup FramesOfType("typing")

\* C11 (as stated): every message or typing frame is preceded by a join
\* frame sent on the same connection.
C11_JoinOnSameConnection ==
    \A k \in ChatFrames :
        \E j \in FramesOfType("join") : j < k /\ sent[j].sock = sent[k].sock

\* C11 (amended): every message or typing frame is preceded by a join frame
\* sent on the same or on an earlier connection.
C11_JoinOnSomeConnection ==
    \A k \in ChatFrames :
        \E j \in FramesOfType("join") : j < k /\ sent[j].sock <= sent[k].sock

\* C11 witness: after the user joined, the connection was replaced, and a
\* message or typing frame went out on the new one, which carried no join
C11_Witness ==
    \E k \in ChatFrames :
        /\ sent[k].sock >= 2
        /\ \A j \in FramesOfType("join") : sent[j].sock < sent[k].sock

\* C12: while the indicator shows Connected, the socket held in ws has had
\* its open event and no error or close event; an error or close event of
\* that socket leaves the indicator at Disconnected, and only an open event
\* turns it to Connected.
C12_TruthfulIndicator ==
    /\ [](connectionStatus = "Connected" =>
            /\ ws # 0
            /\ socks[ws].readyState \in {"OPEN", "CLOSING"}
            /\ ~socks[ws].errorFired
            /\ ~socks[ws].closeFired)
    /\ [][ /\ (\E i \in DOMAIN socks : NetError(i) \/ NetClose(i)) =>
                  connectionStatus' = "Disconnected"
           /\ (connectionStatus # "Connected"
                  /\ connectionStatus' = "Connected") =>
                  \E i \in DOMAIN socks : NetOpen(i) /\ i = ws
      ]_vars

\* C12 witness: a connection made by the retry after a failure (error,
\* then close) is open and shown as Connected
C12_Witness ==
    /\ connectionStatus = "Connected"
    /\ ws >= 2
    /\ socks[1].errorFired /\ socks[1].closeFired

\* C13: if from some point on no step begins the loss of a connection,
\* then from some point on ws is OPEN and the indicator shows Connected.
C13_EventuallyConnected ==
    <>[][~LossStep]_vars =>
        <>[](IsOpen(State) /\ connectionStatus = "Connected")

\* C13 witness: two connections were lost and the third is open
C13_Witness ==
    /\ ws >= 3
    /\ socks[1].closeFired /\ socks[2].closeFired
    /\ IsOpen(State)
    /\ connectionStatus = "Connected"

\* an inbound frame that the chat log shows
Renders(r) == r.data.type \in {"message", "join", "leave"}
Rendered == SelectSeq(received, Renders)

\* C14: the divs of the chat log are, one for one and in order of arrival,
\* the inbound frames of type message, join and leave; a step only appends
\* to the log, and only the step of an inbound frame changes it.
C14_LogMirrorsInbound ==
    /\ [](/\ Len(chatMessages) = Len(Rendered)
          /\ \A k \in DOMAIN chatMessages :
                chatMessages[k].data = Rendered[k].data)
    /\ [][ /\ Len(chatMessages') >= Len(chatMessages)
           /\ SubSeq(chatMessages', 1, Len(chatMessages)) = chatMessages
           /\ chatMessages' # chatMessages =>
                 \E i \in DOMAIN socks, data \in InboundFrames :
                     NetMessage(i, data) /\ Renders([data |-> data])
      ]_vars

\* C14 witness: two frames arrived, the first shows nothing, the second is
\* the one div of the log
C14_Witness ==
    /\ Len(received) = 2
    /\ ~Renders(received[1])
    /\ Len(chatMessages) = 1
    /\ chatMessages[1].data = received[2].data

KnownTypes == {"message", "join", "leave", "users_count", "typing"}

\* C15: the step of an inbound frame sends nothing and leaves ws, username,
\* isTyping, typingTimeout, the timers, the sockets and the panels as they
\* are; for a frame of a type outside the five known ones it also leaves
\* the chat log, the users count and the typing indicator as they are.
C15_InboundOnlyRenders ==
    [][ \A i \in DOMAIN socks, data \in InboundFrames :
          NetMessage(i, data) =>
              /\ UNCHANGED << sent, ws, username, isTyping, typingTimeout,
                              timers, nextTimerId, socks, listeners,
                              messageInput, connectionStatus,
                              userSetupHidden, chatInputHidden >>
              /\ calls' = <<>>
              /\ data.type \notin KnownTypes =>
                    UNCHANGED << chatMessages, usersOnline, typingIndicator >>
      ]_vars

\* C15 witness: a frame of an unknown type was the last to arrive and the
\* page shows nothing of it
C15_Witness ==
    /\ received # <<>>
    /\ received[Len(received)].data.type \notin KnownTypes
    /\ chatMessages = <<>>
    /\ listeners = 1

\* C16: the username of an inbound frame reaches the page only through
\* escapeHtml: as author of a message of another user, and in the text of
\* the system message of a join or leave frame.
C16_UsernamesEscaped ==
    \A k \in DOMAIN chatMessages :
        LET div == chatMessages[k]
        IN /\ (div.data.type = "message" /\ div.class = "other") =>
                 div.author = escapeHtml(div.data.username)
           /\ div.data.type = "join" =>
                 div.content =
                     escapeHtml(div.data.username) \o <<" joined the chat">>
           /\ div.data.type = "leave" =>
                 div.content =
                     escapeHtml(div.data.username) \o <<" left the chat">>

TypingFrames == {k \in DOMAIN received : received[k].data.type = "typing"}
Last(S) == CHOOSE k \in S : \A j \in S : j <= k

\* C17 (as stated): the typing indicator is visible exactly when the last
\* inbound typing frame whose username differs from username had typing
\* true.
C17_IndicatorFollowsOthers ==
    LET others == {k \in TypingFrames :
                      received[k].data.username # username}
    IN ~typingIndicator.hidden <=>
           (others # {} /\ received[Last(others)].data.typing)

\* C17 (amended): the typing indicator is visible exactly when the last
\* inbound typing frame whose username differed from username when the
\* frame arrived had typing true, and it then names that frame's user; a
\* typing frame that carries the value of username leaves the indicator as
\* it is.
C17_IndicatorFollowsOthersAtArrival ==
    /\ [](LET others == {k \in TypingFrames :
                            received[k].data.username # received[k].username}
          IN /\ ~typingIndicator.hidden <=>
                    (others # {} /\ received[Last(others)].data.typing)
             /\ ~typingIndicator.hidden =>
                    typingIndicator.text =
                        received[Last(others)].data.username
                            \o <<" is typing...">>)
    /\ [][ \A i \in DOMAIN socks, data \in InboundFrames :
              (NetMessage(i, data) /\ data.type = "typing"
                  /\ data.username = username) =>
                  UNCHANGED typingIndicator ]_vars

\* C17 witness: another user is shown as typing, and a typing frame with
\* typing false that carries the user's own name has arrived since
C17_Witness ==
    /\ Len(received) = 2
    /\ username # <<>>
    /\ received[1].data.type = "typing" /\ received[1].data.typing
    /\ received[1].data.username # username
    /\ received[2].data.type = "typing" /\ ~received[2].data.typing
    /\ received[2].data.username = username
    /\ received[2].username = username
    /\ ~typingIndicator.hidden

\* the typing frames sent on socket i, by their position in sent
TypingFramesOn(i) ==
    {k \in FramesOfType("typing") : sent[k].sock = i}

\* C18: of two typing frames sent one after the other on one connection the
\* typing values differ; a step sends a typing=true frame only if it turns
\* isTyping from false to true, and a typing=false frame only if it turns
\* isTyping from true to false.
C18_TypingAlternates ==
    /\ [](\A i \in DOMAIN socks : \A j, k \in TypingFramesOn(i) :
             (j < k /\ \A m \in TypingFramesOn(i) : ~(j < m /\ m < k)) =>
                 sent[j].frame.typing # sent[k].frame.typing)
    /\ [][ \A k \in DOMAIN sent' \ DOMAIN sent :
              sent'[k].frame.type = "typing" =>
                  IF sent'[k].frame.typing
                  THEN ~isTyping /\ isTyping'
                  ELSE isTyping /\ ~isTyping' ]_vars

\* C19: a joinChat call with an empty or whitespace-only name, or made while
\* the connection is not OPEN, raises an alert and changes nothing else: no
\* frame is sent, username stays, the user-setup panel stays visible, the
\* chat input stays hidden and no listener is installed; username changes
\* only in a joinChat call that sends the join frame with that trimmed name.
C19_RejectedJoinChangesNothing ==
    /\ [][ \A entered \in UsernameInputs :
              (JoinChatStep(entered)
                  /\ (Trim(entered) = <<>> \/ ~IsOpen(State))) =>
                  /\ Len(calls') = 2
                  /\ calls'[2].op = "alert"
                  /\ UNCHANGED <<sent, username, listeners>>
                  /\ ~userSetupHidden'
                  /\ chatInputHidden' ]_vars
    /\ [][ username' # username =>
              \E entered \in UsernameInputs, ts \in Timestamps :
                  /\ JoinChat(entered, ts)
                  /\ username' = Trim(entered)
                  /\ sent' = Append(sent,
                         [frame |-> [type |-> "join", username |-> username',
                                     timestamp |-> ts],
                          sock |-> ws, readyState |-> "OPEN"]) ]_vars

\* C19 witness: joinChat has just been called with a name while the socket
\* was not OPEN; it raised the alert and the page is as before the call
C19_Witness ==
    /\ ws # 0
    /\ ~IsOpen(State)
    /\ calls = << [op |-> "joinChat", arg |-> ""],
                  [op |-> "alert",
                   arg |-> "Not connected to server. Please wait and try again."] >>
    /\ username = <<>>
    /\ sent = <<>>
    /\ ~userSetupHidden
    /\ chatInputHidden
    /\ listeners = 0

\* C20: a sendMessage call on an OPEN connection with text that is not
\* empty after trimming sends exactly one message frame with username and
\* the trimmed text, followed by one typing=false frame if and only if
\* isTyping was true; afterwards the message field is empty and isTyping is
\* false.
C20_SendMessageFrames ==
    [][ (SendMessageStep /\ IsOpen(State) /\ Trim(messageInput) # <<>>) =>
          /\ \E ts \in Timestamps :
                sent' = sent
                    \o << [frame |-> [type |-> "message",
                                      username |-> username,
                                      content |-> Trim(messageInput),
                                      timestamp |-> ts],
                           sock |-> ws, readyState |-> "OPEN"] >>
                    \o (IF isTyping
                        THEN << [frame |-> [type |-> "typing",
                                            username |-> username,
                                            typing |-> FALSE],
                                 sock |-> ws, readyState |-> "OPEN"] >>
                        ELSE << >>)
          /\ messageInput' = <<>>
          /\ ~isTyping' ]_vars

\* C20 witness: sendMessage has just sent a message frame and, after it, a
\* typing=false frame
C20_Witness ==
    /\ Len(calls) = 2
    /\ calls[1].op = "sendMessage"
    /\ Len(sent) >= 2
    /\ sent[Len(sent) - 1].frame.type = "message"
    /\ sent[Len(sent) - 1].frame.content = <<"h">>
    /\ sent[Len(sent)].frame.type = "typing"
    /\ ~sent[Len(sent)].frame.typing
    /\ messageInput = <<>>
    /\ ~isTyping

====
